---- MODULE Spec2Model ----
(***************************************************************************)
(* A model of the simple_modbus client (src/src/lib.rs): the frame         *)
(* builder, the CRC, the reply validator and extractor, the value codec    *)
(* and the transfer engine over a byte stream.                             *)
(*                                                                         *)
(* Bytes are integers 0..255, words integers 0..65535, a buffer is a       *)
(* sequence of bytes.  A Result is a record [tag, err, val]: tag is "Ok",  *)
(* "Err" or "Panic"; err names the anyhow message of the failing line.     *)
(* An operator that models code whose outcome the caller cannot predict    *)
(* (the stream's I/O, arithmetic whose overflow behaviour depends on the   *)
(* build profile) yields the SET of its possible outcomes.                 *)
(***************************************************************************)
EXTENDS Integers, Sequences, FiniteSets, TLC

VARIABLES
    need_reply,   \* Client.need_reply
    mock,         \* which implementor of Stream the client owns
    rx,           \* bytes delivered to the stream and not yet read
    call,         \* the Function of the last public call, and the flag then
    built,        \* what build_buffer returned for it
    ops,          \* the stream operations the last call performed, in order
    reply,        \* the reply buffer after the last call
    nread,        \* the number of bytes its stream.read delivered
    result        \* what the last public call returned

vars == <<need_reply, mock, rx, call, built, ops, reply, nread, result>>

----------------------------------------------------------------------------
(* Bounds of the model and the inputs drawn from them.                     *)

MaxRx == 1          \* an exchange starts with at most this many stale bytes
MaxQuantity == 2    \* quantities 0..MaxQuantity are read
MaxWords == 2       \* 0..MaxWords words are written (besides the big writes)

MODBUS_MAX_PACKET_SIZE == 260

U8 == 256
U16 == 65536

Ids == {1}
Addresses == {0}
Words == {1, 25}
RegValues == {1, 2}
Quantities == 0 .. MaxQuantity

Min(a, b) == IF a < b THEN a ELSE b

Zeros(n) == [i \in 1 .. n |-> 0]

Ok(v) == [tag |-> "Ok", err |-> "", val |-> v]
Err(e) == [tag |-> "Err", err |-> e, val |-> <<>>]

----------------------------------------------------------------------------
(* Integer helpers: u16 ^ u16, and BufMut::put_u16 (big-endian).           *)

RECURSIVE Xor(_, _)
Xor(a, b) ==
    IF a = 0 THEN b
    ELSE IF b = 0 THEN a
    ELSE ((a + b) % 2) + 2 * Xor(a \div 2, b \div 2)

put_u16_le(v) == <<v % U8, (v \div U8) % U8>>

put_u16(v) == <<(v \div U8) % U8, v % U8>>

\* Buf::get_u16 at 1-based offset i
get_u16(bytes, i) == bytes[i] * U8 + bytes[i + 1]

----------------------------------------------------------------------------
(* calc_crc: for each byte, crc ^= byte, then 8 times shift right and xor  *)
(* 0xA001 when the bit shifted out was 1; returned byte-swapped.           *)

RECURSIVE crc_shift(_, _)
crc_shift(crc, k) ==
    IF k = 0 THEN crc
    ELSE LET crc_odd == (crc % 2) # 0
             shifted == crc \div 2
         IN  crc_shift(IF crc_odd THEN Xor(shifted, 40961) ELSE shifted, k - 1)

\* the loop over data[lo..hi], left to right (split in halves to keep the
\* evaluation shallow; crc is a u16, the test on it only forces its value)
RECURSIVE crc_loop(_, _, _, _)
crc_loop(data, lo, hi, crc) ==
    IF lo > hi \/ crc < 0 THEN crc
    ELSE IF lo = hi THEN crc_shift(Xor(crc, data[lo]), 8)
    ELSE LET mid == (lo + hi) \div 2
         IN  crc_loop(data, mid + 1, hi, crc_loop(data, lo, mid, crc))

calc_crc_noswap(data) == crc_loop(data, 1, Len(data), 65535)

calc_crc(data) ==
    LET crc == crc_loop(data, 1, Len(data), 65535)
    IN  ((crc * U8) % U16) + (crc \div U8)

----------------------------------------------------------------------------
(* Value codec.                                                            *)

pack_bytes(bytes) ==
    LET size == Len(bytes)
    IN  IF size % 2 # 0 THEN Err("Odd")
        ELSE Ok([i \in 1 .. size \div 2 |-> get_u16(bytes, 2 * i - 1)])

unpack_bytes_le(data) ==
    [i \in 1 .. 2 * Len(data) |->
        IF i % 2 = 1 THEN data[(i + 1) \div 2] % U8
        ELSE (data[i \div 2] \div U8) % U8]

unpack_bytes(data) ==
    [i \in 1 .. 2 * Len(data) |->
        IF i % 2 = 1 THEN (data[(i + 1) \div 2] \div U8) % U8
        ELSE data[i \div 2] % U8]

\* enum Coil
Coil == {"On", "Off"}

\* u8 | u8
RECURSIVE Or(_, _)
Or(a, b) ==
    IF a = 0 THEN b
    ELSE IF b = 0 THEN a
    ELSE (IF a % 2 = 1 \/ b % 2 = 1 THEN 1 ELSE 0) + 2 * Or(a \div 2, b \div 2)

\* the loop of pack_bits from the 0-based position i on: res[i / 8] |= v << (i % 8)
RECURSIVE pack_bits_loop(_, _, _)
pack_bits_loop(bits, i, res) ==
    IF i >= Len(bits) THEN res
    ELSE LET v == IF bits[i + 1] = "On" THEN 1 ELSE 0
         IN  pack_bits_loop(bits, i + 1,
                 [res EXCEPT ![i \div 8 + 1] = Or(@, (v * 2 ^ (i % 8)) % U8)])

pack_bits_msb_first(bits) ==
    LET bitcount == Len(bits)
        packed_size == bitcount \div 8 + (IF bitcount % 8 > 0 THEN 1 ELSE 0)
    IN  [j \in 1 .. packed_size |->
            LET last == Min(8 * j, bitcount)
                bit[i \in 8 * (j - 1) .. last] ==
                    IF i = last THEN 0
                    ELSE (IF bits[i + 1] = "On" THEN 2 ^ (7 - (i % 8)) ELSE 0) + bit[i + 1]
            IN  bit[8 * (j - 1)]]

pack_bits(bits) ==
    LET bitcount == Len(bits)
        packed_size == bitcount \div 8 + (IF bitcount % 8 > 0 THEN 1 ELSE 0)
    IN  pack_bits_loop(bits, 0, Zeros(packed_size))

\* unpack_bits: the index of bytes[i / 8] is checked, and out of range it
\* panics in every build
unpack_bits(bytes, count) ==
    IF \E i \in 0 .. count - 1 : i \div 8 + 1 > Len(bytes)
    THEN [tag |-> "Panic", err |-> "IndexOutOfBounds", val |-> <<>>]
    ELSE Ok([k \in 1 .. count |->
                LET i == k - 1
                IN  IF (bytes[i \div 8 + 1] \div 2 ^ (i % 8)) % 2 > 0 THEN "On"
                    ELSE "Off"])

----------------------------------------------------------------------------
(* Function: the four variants, as records of one shape.                   *)

ReadHoldingRegisters(id, addr, quantity) ==
    [kind |-> "ReadHoldingRegisters", id |-> id, addr |-> addr,
     quantity |-> quantity, data |-> <<>>, res |-> <<>>]

WriteSingleRegister(id, addr, value) ==
    [kind |-> "WriteSingleRegister", id |-> id, addr |-> addr,
     quantity |-> 0, data |-> <<value>>, res |-> <<>>]

WriteMultipleRegisters(id, addr, values) ==
    [kind |-> "WriteMultipleRegisters", id |-> id, addr |-> addr,
     quantity |-> 0, data |-> values, res |-> <<>>]

Custom(req, res) ==
    [kind |-> "Custom", id |-> 0, addr |-> 0,
     quantity |-> 0, data |-> req, res |-> res]

----------------------------------------------------------------------------
(* build_buffer.                                                           *)

\* a * b in u8: overflow panics when the build checks overflow (-1 stands
\* for the panic) and wraps when it does not
mul_u8(a, b) ==
    IF a * b >= U8 THEN {-1, (a * b) % U8} ELSE {a * b}

Built(req, rep) == [tag |-> "Ok", err |-> "", req |-> req, reply |-> rep]
NotBuilt(tag, e) == [tag |-> tag, err |-> e, req |-> <<>>, reply |-> <<>>]

with_crc(req) == req \o put_u16(calc_crc(req))

\* the match on fun (lines 169-228): the set of (req, reply) pairs it can
\* produce, or the panic
build_frames(fun) ==
    IF fun.kind = "WriteSingleRegister" THEN
        {Built(with_crc(<<fun.id, 6>> \o put_u16(fun.addr) \o put_u16(fun.data[1])),
               Zeros(8))}
    ELSE IF fun.kind = "WriteMultipleRegisters" THEN
        LET word_cnt == Len(fun.data) % U16
        IN  {IF byte_cnt < 0 THEN NotBuilt("Panic", "MulOverflow")
             ELSE Built(with_crc(<<fun.id, 16>> \o put_u16(fun.addr)
                                 \o put_u16(word_cnt) \o <<byte_cnt>>
                                 \o unpack_bytes(fun.data)),
                        Zeros(8))
             : byte_cnt \in mul_u8(2, word_cnt % U8)}
    ELSE IF fun.kind = "ReadHoldingRegisters" THEN
        {Built(with_crc(<<fun.id, 3>> \o put_u16(fun.addr) \o put_u16(fun.quantity)),
               Zeros(5 + fun.quantity * 2))}
    ELSE
        {Built(fun.data, fun.res)}

\* the size checks (lines 230-238)
check_size(b) ==
    IF b.tag # "Ok" THEN b
    ELSE IF Len(b.req) = 0 THEN NotBuilt("Err", "SendEmpty")
    ELSE IF Len(b.req) > MODBUS_MAX_PACKET_SIZE THEN NotBuilt("Err", "SendTooBig")
    ELSE b

build_buffer(fun) == {check_size(b) : b \in build_frames(fun)}

InvalidFrame == {"SendEmpty", "SendTooBig"}

----------------------------------------------------------------------------
(* validate_reply and get_reply_data.                                      *)

validate_reply_crc_first(req, rep) ==
    LET req_len == Len(req)
        reply_len == Len(rep)
    IN  IF req_len < 3 \/ reply_len < 3 THEN Err("Len")
        ELSE IF get_u16(rep, reply_len - 1) # calc_crc(SubSeq(rep, 1, reply_len - 2))
             THEN Err("Crc")
        ELSE IF req[1] # rep[1] THEN Err("Id")
        ELSE IF req[2] # rep[2] THEN Err("Fun")
        ELSE Ok(<<>>)

validate_reply_no_crc(req, rep) ==
    LET req_len == Len(req)
        reply_len == Len(rep)
    IN  IF req_len < 3 \/ reply_len < 3 THEN Err("Len")
        ELSE IF req[1] # rep[1] THEN Err("Id")
        ELSE IF req[2] # rep[2] THEN Err("Fun")
        ELSE Ok(<<>>)

validate_reply_no_fun(req, rep) ==
    LET req_len == Len(req)
        reply_len == Len(rep)
    IN  IF req_len < 3 \/ reply_len < 3 THEN Err("Len")
        ELSE IF req[1] # rep[1] THEN Err("Id")
        ELSE IF get_u16(rep, reply_len - 1) # calc_crc(SubSeq(rep, 1, reply_len - 2))
             THEN Err("Crc")
        ELSE Ok(<<>>)

validate_reply(req, rep) ==
    LET req_len == Len(req)
        reply_len == Len(rep)
    IN  IF req_len < 3 \/ reply_len < 3 THEN Err("Len")
        ELSE IF req[1] # rep[1] THEN Err("Id")
        ELSE IF req[2] # rep[2] THEN Err("Fun")
        ELSE IF get_u16(rep, reply_len - 1) # calc_crc(SubSeq(rep, 1, reply_len - 2))
             THEN Err("Crc")
        ELSE Ok(<<>>)

get_reply_data_from_count(rep) ==
    IF Len(rep) <= 5 THEN Err("NoData")
    ELSE LET len == rep[3]
         IN  IF 5 + len # Len(rep) THEN Err("NoData")
             ELSE Ok(SubSeq(rep, 3, 2 + len))

get_reply_data_at_least(rep) ==
    IF Len(rep) <= 5 THEN Err("NoData")
    ELSE LET len == rep[3]
         IN  IF 5 + len > Len(rep) THEN Err("NoData")
             ELSE Ok(SubSeq(rep, 4, 3 + len))

get_reply_data_u8(rep) ==
    IF Len(rep) <= 5 THEN Err("NoData")
    ELSE LET len == rep[3]
         IN  IF (5 + len) % U8 # Len(rep) % U8 THEN Err("NoData")
             ELSE Ok(SubSeq(rep, 4, Len(rep) - 2))

get_reply_data(rep) ==
    IF Len(rep) <= 5 THEN Err("NoData")
    ELSE LET len == rep[3]
         IN  IF 5 + len # Len(rep) THEN Err("NoData")
             ELSE Ok(SubSeq(rep, 4, 3 + len))

----------------------------------------------------------------------------
(* The stream (Box<dyn Stream>) and the device at its far end.  A "serial" *)
(* stream is any implementor of Read + Write: write_all and flush succeed  *)
(* or fail, read fails or delivers some of the bytes on the line.  An      *)
(* "echo" stream is the in-memory mock: it never fails, returns the bytes  *)
(* written to it (possibly with one CRC bit flipped) and fills the buffer. *)
(* A "framed" stream hands over one frame per read: as much of it as the   *)
(* buffer takes, the rest dropped; its device also sends replies with any  *)
(* byte count.                                                             *)

FlipBit(bytes, i, k) == [bytes EXCEPT ![i] = Xor(@, 2 ^ k)]

OtherId(id) == (id + 1) % U8

\* a well-formed reply of unit `id` to the request `req`
NormalReplies(id, req) ==
    LET fc == req[2]
    IN  IF fc = 6 /\ Len(req) = 8 THEN {with_crc(<<id>> \o SubSeq(req, 2, 6))}
        ELSE IF fc = 16 /\ Len(req) >= 9 THEN {with_crc(<<id>> \o SubSeq(req, 2, 6))}
        ELSE IF fc = 3 /\ Len(req) = 8 THEN
            {with_crc(<<id, 3, (2 * get_u16(req, 5)) % U8>> \o unpack_bytes(regs))
                : regs \in {[i \in 1 .. get_u16(req, 5) |-> r + i - 1] : r \in RegValues}}
        ELSE {with_crc(<<id, fc, 2>>), with_crc(<<id, fc, 1, 2>>)}

\* the Modbus exception reply: function code with the high bit set, one code
ExceptionReply(req) == with_crc(<<req[1], (req[2] % 128) + 128, 2>>)

Corrupted(replies) == {FlipBit(r, Len(r), 0) : r \in replies}

\* the values of the byte count field a device may send
ByteCounts == {0, 1, 2, U8 - 2, U8 - 1}

\* replies to a read of registers that pass the validator, with any byte
\* count: as long as the reply buffer, and as long as the byte count says
CountedReplies(req) ==
    IF Len(req) = 8 /\ req[2] = 3
    THEN {with_crc(<<req[1], 3, c>> \o Zeros(2 * get_u16(req, 5))) : c \in ByteCounts}
         \cup {with_crc(<<req[1], 3, c>> \o Zeros(c)) : c \in ByteCounts}
    ELSE {}

\* what the device may put on the line once `req` has been flushed to it
DeviceReplies(req) ==
    IF mock = "echo" THEN
        {req} \cup {FlipBit(req, Len(req) - 1 + (b \div 8), b % 8) : b \in 0 .. 15}
    ELSE IF Len(req) < 2 THEN {<<>>}
    ELSE {<<>>, ExceptionReply(req)}
         \cup NormalReplies(req[1], req)
         \cup Corrupted(NormalReplies(req[1], req))
         \cup NormalReplies(OtherId(req[1]), req)
         \cup (IF mock = "framed" THEN CountedReplies(req) ELSE {})

\* Write::write_all and Write::flush: TRUE is Ok(()), FALSE an io::Error
stream_write_all(req) == IF mock = "echo" THEN {TRUE} ELSE BOOLEAN

stream_flush == IF mock = "echo" THEN {TRUE} ELSE BOOLEAN

ReadOk(line, buf, n) ==
    [ok |-> TRUE, n |-> n,
     buf |-> [i \in 1 .. Len(buf) |-> IF i <= n THEN line[i] ELSE buf[i]],
     rx |-> SubSeq(line, n + 1, Len(line))]

\* Read::read: an io::Error (the timeout, when nothing arrives), or Ok(n)
\* with the first n bytes of the line in buf[0..n], 1 <= n <= buf.len();
\* Ok(0) for an empty buf
stream_read(line, buf) ==
    LET most == Min(Len(line), Len(buf))
    IN  IF mock = "echo" THEN {ReadOk(line, buf, most)}
        ELSE IF mock = "framed" THEN
            {[ok |-> FALSE, n |-> 0, buf |-> buf, rx |-> line]}
            \cup (IF Len(line) = 0 /\ Len(buf) > 0 THEN {}
                  ELSE {[ReadOk(line, buf, most) EXCEPT !.rx = <<>>]})
        ELSE {[ok |-> FALSE, n |-> 0, buf |-> buf, rx |-> line]}
             \cup {ReadOk(line, buf, n) : n \in (IF Len(buf) = 0 THEN 0 ELSE 1) .. most}

----------------------------------------------------------------------------
(* transfer, read, write: the set of outcomes of one exchange.             *)

Outcome(res, rep, line, done, n) ==
    [result |-> res, reply |-> rep, rx |-> line, ops |-> done, nread |-> n]

skips_reply_any(write) == ~need_reply

\* line 139: a write, and the client set not to await the reply
skips_reply(write) == write /\ ~need_reply

\* lines 143-149: the read and the validation of what it delivered
await_reply(req, rep, line) ==
    {IF r.ok THEN Outcome(validate_reply(req, r.buf), r.buf, r.rx,
                          <<"write_all", "flush", "read">>, r.n)
     ELSE Outcome(Err("Read"), r.buf, r.rx, <<"write_all", "flush", "read">>, 0)
     : r \in stream_read(line, rep)}

transfer_retrying_write(req, rep, write) ==
    UNION {
        IF ~wrote
        THEN {Outcome(Err("WriteAll"), rep, rx, <<"write_all", "write_all">>, 0)}
        ELSE UNION {
            IF ~flushed THEN {Outcome(Err("Flush"), rep, rx, <<"write_all", "flush">>, 0)}
            ELSE UNION {
                IF skips_reply(write)
                THEN {Outcome(Ok(<<>>), rep, rx \o d, <<"write_all", "flush">>, 0)}
                ELSE await_reply(req, rep, rx \o d)
                : d \in DeviceReplies(req)}
            : flushed \in stream_flush}
        : wrote \in stream_write_all(req)}

transfer(req, rep, write) ==
    UNION {
        IF ~wrote THEN {Outcome(Err("WriteAll"), rep, rx, <<"write_all">>, 0)}
        ELSE UNION {
            IF ~flushed THEN {Outcome(Err("Flush"), rep, rx, <<"write_all", "flush">>, 0)}
            ELSE UNION {
                IF skips_reply(write)
                THEN {Outcome(Ok(<<>>), rep, rx \o d, <<"write_all", "flush">>, 0)}
                ELSE await_reply(req, rep, rx \o d)
                : d \in DeviceReplies(req)}
            : flushed \in stream_flush}
        : wrote \in stream_write_all(req)}

NoTransfer(b) == Outcome([tag |-> b.tag, err |-> b.err, val |-> <<>>], <<>>, rx, <<>>, 0)

\* an outcome of an exchange, with the build it came from
Exchange(b, o) == [built |-> b, out |-> o]

read(fun) ==
    UNION {
        IF b.tag # "Ok" THEN {Exchange(b, NoTransfer(b))}
        ELSE {Exchange(b, IF o.result.tag = "Ok"
                          THEN [o EXCEPT !.result = get_reply_data(o.reply)]
                          ELSE o)
              : o \in transfer(b.req, b.reply, FALSE)}
        : b \in build_buffer(fun)}

write(fun) ==
    UNION {
        IF b.tag # "Ok" THEN {Exchange(b, NoTransfer(b))}
        ELSE {Exchange(b, o) : o \in transfer(b.req, b.reply, TRUE)}
        : b \in build_buffer(fun)}

----------------------------------------------------------------------------
(* The client: Client::new and the public operations.                      *)

NoCall ==
    [kind |-> "None", id |-> 0, addr |-> 0, quantity |-> 0,
     data |-> <<>>, res |-> <<>>, need |-> TRUE]

Idle ==
    /\ call = NoCall
    /\ built = NotBuilt("None", "")
    /\ ops = <<>>
    /\ reply = <<>>
    /\ nread = 0
    /\ result = [tag |-> "None", err |-> "", val |-> <<>>]

InitWith(m) ==
    /\ need_reply = TRUE
    /\ mock = m
    /\ rx = <<>>
    /\ Idle

Init == InitWith("serial")

\* a call is made when no other is in progress (the engine is not
\* reentrant), here with at most MaxRx stale bytes on the line
CanCall == result.tag = "None" /\ Len(rx) <= MaxRx

Returns_resetting_flag(fun, x, res) ==
    /\ call' = [kind |-> fun.kind, id |-> fun.id, addr |-> fun.addr,
                quantity |-> fun.quantity, data |-> fun.data, res |-> fun.res,
                need |-> need_reply]
    /\ built' = x.built
    /\ ops' = x.out.ops
    /\ reply' = x.out.reply
    /\ nread' = x.out.nread
    /\ rx' = x.out.rx
    /\ result' = res
    /\ need_reply' = TRUE
    /\ UNCHANGED mock

\* the state after the call `fun` ended in exchange x with result res
Returns(fun, x, res) ==
    /\ call' = [kind |-> fun.kind, id |-> fun.id, addr |-> fun.addr,
                quantity |-> fun.quantity, data |-> fun.data, res |-> fun.res,
                need |-> need_reply]
    /\ built' = x.built
    /\ ops' = x.out.ops
    /\ reply' = x.out.reply
    /\ nread' = x.out.nread
    /\ rx' = x.out.rx
    /\ result' = res
    /\ UNCHANGED <<need_reply, mock>>

read_holding_registers(id, address, quantity) ==
    /\ CanCall
    /\ \E x \in read(ReadHoldingRegisters(id, address, quantity)) :
          Returns(ReadHoldingRegisters(id, address, quantity), x,
                  IF x.out.result.tag = "Ok" THEN pack_bytes(x.out.result.val)
                  ELSE x.out.result)

write_single_register(id, address, value) ==
    /\ CanCall
    /\ \E x \in write(WriteSingleRegister(id, address, value)) :
          Returns(WriteSingleRegister(id, address, value), x, x.out.result)

write_multiple_registers(id, address, values) ==
    /\ CanCall
    /\ \E x \in write(WriteMultipleRegisters(id, address, values)) :
          Returns(WriteMultipleRegisters(id, address, values), x, x.out.result)

custom(req, res) ==
    /\ CanCall
    /\ \E x \in read(Custom(req, res)) :
          Returns(Custom(req, res), x, x.out.result)

set_need_reply(flag) ==
    /\ result.tag = "None"
    /\ need_reply' = flag
    /\ UNCHANGED <<mock, rx, call, built, ops, reply, nread, result>>

\* the caller takes the returned value: the request, the reply buffer and
\* the Result are locals of the call and are dropped with it; a panic is
\* not returned from
release ==
    /\ result.tag \in {"Ok", "Err"}
    /\ call' = NoCall
    /\ built' = NotBuilt("None", "")
    /\ ops' = <<>>
    /\ reply' = <<>>
    /\ nread' = 0
    /\ result' = [tag |-> "None", err |-> "", val |-> <<>>]
    /\ UNCHANGED <<need_reply, mock, rx>>

----------------------------------------------------------------------------
(* The inputs of the calls.                                                *)

\* the values written by write_multiple_registers: up to MaxWords words, and
\* the lengths around the packet-size limit and the u8 limit of byte_cnt
FirstTooBig == (MODBUS_MAX_PACKET_SIZE - 9) \div 2 + 1
BigCounts == {FirstTooBig - 1, FirstTooBig, U8 \div 2 - 1, U8 \div 2}
WordLists ==
    {[i \in 1 .. n |-> i] : n \in (0 .. MaxWords) \cup BigCounts}

\* the request of the repository's test_custom_function: function 0x7A
VendorRequest == with_crc(<<15, 122, 0, 0, 2>>)
CustomRequests ==
    {<<>>, <<15, 122>>, VendorRequest,
     Zeros(MODBUS_MAX_PACKET_SIZE), Zeros(MODBUS_MAX_PACKET_SIZE + 1)}
CustomReplyBuffers == {Zeros(0), Zeros(5), Zeros(6)}

Next ==
    \/ \E id \in Ids, a \in Addresses, q \in Quantities :
          read_holding_registers(id, a, q)
    \/ \E id \in Ids, a \in Addresses, v \in Words :
          write_single_register(id, a, v)
    \/ \E id \in Ids, a \in Addresses, vs \in WordLists :
          write_multiple_registers(id, a, vs)
    \/ \E req \in CustomRequests, res \in CustomReplyBuffers :
          custom(req, res)
    \/ \E flag \in BOOLEAN : set_need_reply(flag)
    \/ release

Spec == Init /\ [][Next]_vars

----------------------------------------------------------------------------
(* The frame builder alone, over a wider range of inputs.                  *)

BuildIds == {0, 1, 15, 255}
BuildAddresses == {0, 22, 4386, 65535}
BuildWords == {0, 1, 25, 4660, 65535}
BuildQuantities == Quantities \cup {U8 \div 2 - 1, U8 \div 2}
BuildWordLists == WordLists \cup {<<4660, 65535>>}

\* Client::build_buffer(fun), called on its own
build(fun) ==
    /\ result.tag = "None"
    /\ \E b \in build_buffer(fun) :
          /\ call' = [kind |-> fun.kind, id |-> fun.id, addr |-> fun.addr,
                      quantity |-> fun.quantity, data |-> fun.data,
                      res |-> fun.res, need |-> need_reply]
          /\ built' = b
          /\ result' = [tag |-> b.tag, err |-> b.err, val |-> <<>>]
    /\ UNCHANGED <<need_reply, mock, rx, ops, reply, nread>>

NextBuild ==
    \/ \E id \in BuildIds, a \in BuildAddresses, q \in BuildQuantities :
          build(ReadHoldingRegisters(id, a, q))
    \/ \E id \in BuildIds, a \in BuildAddresses, v \in BuildWords :
          build(WriteSingleRegister(id, a, v))
    \/ \E id \in BuildIds, a \in BuildAddresses, vs \in BuildWordLists :
          build(WriteMultipleRegisters(id, a, vs))
    \/ \E req \in CustomRequests, res \in CustomReplyBuffers :
          build(Custom(req, res))
    \/ release

SpecBuild == Init /\ [][NextBuild]_vars

----------------------------------------------------------------------------
(* The client over the echoing mock stream.                                *)

InitEcho == InitWith("echo")

NextEcho ==
    \/ \E id \in BuildIds, a \in BuildAddresses, v \in BuildWords :
          write_single_register(id, a, v)
    \/ \E flag \in BOOLEAN : set_need_reply(flag)
    \/ release

SpecEcho == InitEcho /\ [][NextEcho]_vars

----------------------------------------------------------------------------
(* read_holding_registers over the framed stream, for the quantities up to *)
(* and beyond the largest whose byte count fits the reply's count byte.    *)

InitFramed == InitWith("framed")

\* the largest quantity whose 2*quantity bytes a count byte can announce
MaxReadable == (U8 - 1) \div 2

FramedQuantities == {0, 1, MaxReadable, MaxReadable + 1}

NextFramed ==
    \/ \E id \in Ids, a \in Addresses, q \in FramedQuantities :
          read_holding_registers(id, a, q)
    \/ release

SpecFramed == InitFramed /\ [][NextFramed]_vars

----------------------------------------------------------------------------
(* The pure functions of the crate, each called on its own: calc_crc, the  *)
(* value codec and the reply extractor.  `call` holds the function and its *)
(* arguments, `result` what it returned.                                   *)

MaxBytes == 3       \* byte sequences of up to this length are packed
MaxCoils == 9       \* coil sequences of up to this length are packed
MaxCount == 17      \* unpack_bits is asked for up to this many coils

CodecBytes == {0, 1, 18, 255}
CodecWords == {0, 1, 4660, 65280, 65535}

ByteLists == UNION {[1 .. n -> CodecBytes] : n \in 0 .. MaxBytes}
CodecWordLists == UNION {[1 .. n -> CodecWords] : n \in 0 .. 2}
CoilLists == UNION {[1 .. n -> Coil] : n \in 0 .. MaxCoils}

\* the published vector (unit 2, function 7) and other messages
CrcInputs == {<<2, 7>>, <<>>, <<0>>, <<255>>, <<1, 6, 0, 0, 0, 25>>, VendorRequest}

\* replies handed to the extractor: every length up to 5 + MaxBytes with
\* every small value of the count byte, and the lengths around the largest
\* count a byte can hold
ExtractorReplies ==
    {[i \in 1 .. n |-> IF i = 3 THEN c ELSE (7 * i) % U8] :
        n \in 0 .. 5 + MaxBytes, c \in 0 .. MaxBytes + 1}
    \cup {[i \in 1 .. n |-> IF i = 3 THEN c ELSE (7 * i) % U8] :
        n \in {U8 + 3, U8 + 4, U8 + 5}, c \in {0, U8 - 2, U8 - 1}}

\* f(args) returned res
Applied(f, args, count, res) ==
    /\ call' = [kind |-> f, id |-> 0, addr |-> 0, quantity |-> count,
                data |-> args, res |-> <<>>, need |-> need_reply]
    /\ result' = res
    /\ UNCHANGED <<need_reply, mock, rx, built, ops, reply, nread>>

apply_calc_crc(data) ==
    /\ result.tag = "None"
    /\ Applied("calc_crc", data, 0, Ok(<<calc_crc(data)>>))

apply_pack_bytes(bytes) ==
    /\ result.tag = "None"
    /\ Applied("pack_bytes", bytes, 0, pack_bytes(bytes))

apply_unpack_bytes(data) ==
    /\ result.tag = "None"
    /\ Applied("unpack_bytes", data, 0, Ok(unpack_bytes(data)))

apply_pack_bits(bits) ==
    /\ result.tag = "None"
    /\ Applied("pack_bits", bits, 0, Ok(pack_bits(bits)))

apply_unpack_bits(bytes, count) ==
    /\ result.tag = "None"
    /\ Applied("unpack_bits", bytes, count, unpack_bits(bytes, count))

\* unpack_bits(&pack_bits(bits), bits.len())
apply_pack_unpack_bits(bits) ==
    /\ result.tag = "None"
    /\ Applied("pack_bits;unpack_bits", bits, Len(bits),
               unpack_bits(pack_bits(bits), Len(bits)))

apply_get_reply_data(rep) ==
    /\ result.tag = "None"
    /\ Applied("get_reply_data", rep, 0, get_reply_data(rep))

NextCodec ==
    \/ \E data \in CrcInputs : apply_calc_crc(data)
    \/ \E bytes \in ByteLists \cup {unpack_bytes(w) : w \in CodecWordLists} :
          apply_pack_bytes(bytes)
    \/ \E data \in CodecWordLists : apply_unpack_bytes(data)
    \/ \E bits \in CoilLists : apply_pack_bits(bits)
    \/ \E bits \in CoilLists : apply_pack_unpack_bits(bits)
    \/ \E bytes \in ByteLists, count \in 0 .. MaxCount : apply_unpack_bits(bytes, count)
    \/ \E rep \in ExtractorReplies : apply_get_reply_data(rep)
    \/ release

SpecCodec == Init /\ [][NextCodec]_vars

----------------------------------------------------------------------------
(* What the last call did, read off the state.                             *)

WriteClass == {"WriteSingleRegister", "WriteMultipleRegisters"}
ReadClass == {"ReadHoldingRegisters", "Custom"}

FlushSucceeded == Len(ops) >= 2 /\ result.err # "Flush"
ReadPerformed == Len(ops) = 3
ReadSucceeded == Len(ops) = 3 /\ result.err # "Read"

\* the reply buffer's length as the spec's table gives it
ExpectedReplyLen ==
    IF call.kind = "ReadHoldingRegisters" THEN 5 + 2 * call.quantity
    ELSE IF call.kind = "Custom" THEN Len(call.res)
    ELSE 8

\* the length the encoded request of the call would have
EncodedLen ==
    IF call.kind = "Custom" THEN Len(call.data)
    ELSE IF call.kind = "WriteMultipleRegisters" THEN 9 + 2 * Len(call.data)
    ELSE 8

BigEndian(v) == <<v \div 256, v % 256>>

\* the trailing two bytes of a frame are the CRC of the bytes before them
CrcCorrect(frame) ==
    /\ Len(frame) >= 3
    /\ frame[Len(frame) - 1] * 256 + frame[Len(frame)]
          = calc_crc(SubSeq(frame, 1, Len(frame) - 2))

----------------------------------------------------------------------------
\* C1: a write-class call made in no-reply mode returns success after a
\* successful write and flush without reading; a read-class call reads after
\* every successful flush, whatever the flag.
C1_NoReplySkipsRead ==
    /\ (call.kind \in WriteClass /\ ~call.need /\ FlushSucceeded)
          => (result = Ok(<<>>) /\ ops = <<"write_all", "flush">>)
    /\ (call.kind \in ReadClass /\ FlushSucceeded)
          => ops = <<"write_all", "flush", "read">>

C1_Witness ==
    /\ call.kind = "WriteMultipleRegisters"
    /\ ~call.need
    /\ FlushSucceeded
    /\ result = Ok(<<>>)

\* C2: an exchange whose read delivered fewer bytes than the reply buffer
\* holds fails.
C2_ShortReadFails ==
    (ReadSucceeded /\ nread < Len(reply)) => result.tag = "Err"

\* C3: every exchange that awaits a reply consumes exactly as many bytes as
\* its reply buffer is long, the length the table of reply sizes gives, and
\* leaves nothing of what the line held for a later exchange.
C3_ReadsExactlyReplyLen ==
    ReadSucceeded =>
        /\ Len(reply) = ExpectedReplyLen
        /\ nread = Len(reply)

\* C4: a frame handed to write_all has 1..260 bytes, and a call whose encoded
\* request would be empty or longer fails with InvalidFrame before any
\* stream operation.
C4_InvalidFrameBeforeIO ==
    /\ Len(ops) >= 1 => Len(built.req) \in 1 .. MODBUS_MAX_PACKET_SIZE
    /\ (call.kind # "None" /\ EncodedLen \notin 1 .. MODBUS_MAX_PACKET_SIZE)
          => (result.tag = "Err" /\ result.err \in InvalidFrame /\ ops = <<>>)

\* C5: a write of an empty sequence of registers fails with InvalidFrame and
\* nothing is written.
C5_EmptyWriteRejected ==
    (call.kind = "WriteMultipleRegisters" /\ call.data = <<>>)
        => (result.tag = "Err" /\ result.err \in InvalidFrame /\ ops = <<>>)

FunctionCode ==
    IF call.kind = "ReadHoldingRegisters" THEN 3
    ELSE IF call.kind = "WriteSingleRegister" THEN 6
    ELSE 16

WordBytes(ws) == [i \in 1 .. 2 * Len(ws) |-> BigEndian(ws[(i + 1) \div 2])[2 - (i % 2)]]

Payload ==
    IF call.kind = "ReadHoldingRegisters" THEN BigEndian(call.quantity)
    ELSE IF call.kind = "WriteSingleRegister" THEN BigEndian(call.data[1])
    ELSE BigEndian(Len(call.data)) \o <<2 * Len(call.data)>> \o WordBytes(call.data)

\* C6: the request of a non-custom operation is unit id, function code
\* (0x03, 0x06, 0x10), the address big-endian, the payload, and the CRC of
\* all bytes before it; it has 8 bytes (9 + 2n for a write of n words), and
\* the reply buffer is 5 + 2*quantity (8 for the writes) zero bytes.
C6_FrameLayout ==
    (call.kind \in WriteClass \cup {"ReadHoldingRegisters"}
        /\ EncodedLen <= MODBUS_MAX_PACKET_SIZE)
    => LET body == <<call.id, FunctionCode>> \o BigEndian(call.addr) \o Payload
       IN  /\ built.tag = "Ok"
           /\ built.req = body \o BigEndian(calc_crc(body))
           /\ Len(built.req) = EncodedLen
           /\ built.reply = Zeros(ExpectedReplyLen)

C6_Witness ==
    /\ call.kind = "WriteMultipleRegisters"
    /\ call.addr = 4386
    /\ call.data = <<4660, 65535>>
    /\ built.tag = "Ok"
    /\ Len(built.req) = 13

ValidationErrors == {"Len", "Id", "Fun", "Crc"}

LongEnough == Len(built.req) >= 3 /\ Len(reply) >= 3

\* C7: the validator checks lengths, unit id, function code and CRC in that
\* order and reports the first check that fails; a reply from another unit
\* is rejected for its unit id whatever its CRC; a reply is accepted iff all
\* four checks hold.
C7_ValidationOrder ==
    ReadSucceeded =>
        /\ ~LongEnough => result = Err("Len")
        /\ (LongEnough /\ reply[1] # built.req[1]) => result = Err("Id")
        /\ (LongEnough /\ reply[1] = built.req[1] /\ reply[2] # built.req[2])
              => result = Err("Fun")
        /\ (LongEnough /\ reply[1] = built.req[1] /\ reply[2] = built.req[2])
              => IF CrcCorrect(reply) THEN result.err \notin ValidationErrors
                 ELSE result = Err("Crc")

C7_Witness ==
    /\ ReadSucceeded
    /\ LongEnough
    /\ reply[1] # built.req[1]
    /\ CrcCorrect(reply)
    /\ result = Err("Id")

CrcField(frame) == frame[Len(frame) - 1] * 256 + frame[Len(frame)]

OneCrcBitFlipped ==
    /\ SubSeq(reply, 1, 6) = SubSeq(built.req, 1, 6)
    /\ \E k \in 0 .. 15 : Xor(CrcField(reply), CrcField(built.req)) = 2 ^ k

\* C8: write_single_register against a stream that returns the request as
\* the reply succeeds with no payload; with one bit of the two CRC bytes of
\* that reply flipped it fails with the checksum error.
C8_EchoAcceptedFlipRejected ==
    (call.kind = "WriteSingleRegister" /\ ReadSucceeded /\ nread = 8)
    => /\ reply = built.req => result = Ok(<<>>)
       /\ OneCrcBitFlipped => result = Err("Crc")

C8_Witness ==
    /\ call.kind = "WriteSingleRegister"
    /\ call.id = 15 /\ call.addr = 0 /\ call.data = <<1>>
    /\ nread = 8
    /\ reply = built.req
    /\ result = Ok(<<>>)

Decode(bytes) == [i \in 1 .. Len(bytes) \div 2 |-> bytes[2 * i - 1] * 256 + bytes[2 * i]]

FullReply ==
    /\ Len(reply) = 5 + 2 * call.quantity
    /\ reply[1] = call.id
    /\ reply[2] = 3
    /\ reply[3] = 2 * call.quantity
    /\ CrcCorrect(reply)

OkIsThePayload ==
    result.tag = "Ok" =>
        /\ Len(result.val) = call.quantity
        /\ result.val = Decode(SubSeq(reply, 4, 3 + 2 * call.quantity))

\* C9 as stated, for every quantity: read_holding_registers whose reply
\* buffer holds the full reply
\* [id, 0x03, 2*quantity, payload, crc] with a correct CRC returns the
\* payload decoded pairwise big-endian; whenever it returns Ok(words), words
\* has quantity elements, the decoding of reply bytes 3 .. 3 + 2*quantity.
C9_FullReplyDecoded ==
    call.kind = "ReadHoldingRegisters" =>
        /\ OkIsThePayload
        /\ (ReadSucceeded /\ FullReply)
              => result = Ok(Decode(SubSeq(reply, 4, 3 + 2 * call.quantity)))

\* C9 as amended: for quantity >= 1 a full reply with a correct CRC is
\* returned decoded; for every quantity an Ok(words) is the decoded payload.
C9_FullReplyDecodedFromOne ==
    call.kind = "ReadHoldingRegisters" =>
        /\ OkIsThePayload
        /\ (call.quantity >= 1 /\ ReadSucceeded /\ FullReply)
              => result = Ok(Decode(SubSeq(reply, 4, 3 + 2 * call.quantity)))

C9_Witness ==
    /\ call.kind = "ReadHoldingRegisters"
    /\ call.quantity = 2
    /\ nread = 9
    /\ FullReply
    /\ result = Ok(<<1, 2>>)

\* C10: custom returns the reply it received raw and in full: no byte count
\* is required at offset 2, and neither envelope nor CRC is stripped.
C10_CustomReturnsRawReply ==
    (call.kind = "Custom" /\ ReadSucceeded /\ result.err \notin ValidationErrors)
        => result = Ok(reply)

----------------------------------------------------------------------------
(* The pure functions.                                                     *)

Called(f) == call.kind = f /\ result.tag # "None"

HighByte(w) == w \div 256
LowByte(w) == w % 256

\* C11: unpack_bytes yields 2*len(w) bytes, the high byte of each word
\* first, and pack_bytes of that is w again; pack_bytes fails with the
\* odd-length error for every odd number of bytes and succeeds for every
\* even number.
C11_WordsRoundTrip ==
    /\ Called("unpack_bytes") =>
          /\ result.tag = "Ok"
          /\ Len(result.val) = 2 * Len(call.data)
          /\ \A i \in 1 .. Len(call.data) :
                /\ result.val[2 * i - 1] = HighByte(call.data[i])
                /\ result.val[2 * i] = LowByte(call.data[i])
    /\ Called("pack_bytes") =>
          /\ Len(call.data) % 2 = 1 => result = Err("Odd")
          /\ Len(call.data) % 2 = 0 =>
                (result.tag = "Ok" /\ Len(result.val) = Len(call.data) \div 2)
          /\ \A w \in CodecWordLists :
                call.data = unpack_bytes(w) => result = Ok(w)

C11_Witness ==
    /\ Called("pack_bytes")
    /\ call.data = unpack_bytes(<<4660, 65280>>)
    /\ call.data = <<18, 52, 255, 0>>
    /\ result = Ok(<<4660, 65280>>)

CeilDiv8(n) == (n + 7) \div 8

BitOf(byte, k) == (byte \div 2 ^ k) % 2

\* C12: pack_bits(c) has ceil(len(c)/8) bytes, coil i at bit i mod 8 of byte
\* i div 8 and the unused high bits of the last byte 0; unpack_bits of it
\* with len(c) is c again, for every c, the empty one included.
C12_CoilsRoundTrip ==
    /\ Called("pack_bits") =>
          /\ result.tag = "Ok"
          /\ Len(result.val) = CeilDiv8(Len(call.data))
          /\ \A j \in 1 .. Len(result.val) : result.val[j] \in 0 .. 255
          /\ \A i \in 0 .. 8 * Len(result.val) - 1 :
                BitOf(result.val[i \div 8 + 1], i % 8)
                    = IF i < Len(call.data) /\ call.data[i + 1] = "On" THEN 1 ELSE 0
    /\ Called("pack_bits;unpack_bits") => result = Ok(call.data)

C12_Witness ==
    /\ Called("pack_bits;unpack_bits")
    /\ call.data = <<"On", "Off", "Off", "Off", "Off", "Off", "Off", "On", "On">>
    /\ pack_bits(call.data) = <<129, 1>>
    /\ result = Ok(call.data)

\* the CRC-16 register after the bytes of data, before calc_crc swaps it
CrcRegister(data) == crc_loop(data, 1, Len(data), 65535)

\* C13: calc_crc is the Modbus CRC-16 with its two bytes swapped: appended
\* as a big-endian word it puts the low byte of the CRC first, so that the
\* CRC of a message followed by it is 0; for [0x02, 0x07] the register is
\* 0x1241, calc_crc returns 0x4112 and the bytes on the wire are 0x41, 0x12.
C13_CrcSwapped ==
    Called("calc_crc") =>
        LET crc == result.val[1]
            wire == put_u16(crc)
        IN  /\ crc = LowByte(CrcRegister(call.data)) * 256 + HighByte(CrcRegister(call.data))
            /\ wire = <<LowByte(CrcRegister(call.data)), HighByte(CrcRegister(call.data))>>
            /\ CrcRegister(call.data \o wire) = 0
            /\ call.data = <<2, 7>> =>
                  (CrcRegister(call.data) = 4673 /\ crc = 16658 /\ wire = <<65, 18>>)

C13_Witness ==
    /\ Called("calc_crc")
    /\ call.data = <<2, 7>>
    /\ result = Ok(<<16658>>)

\* C15: get_reply_data succeeds iff the reply has more than 5 bytes and
\* 5 + reply[2] is its length; it then returns the reply[2] bytes from
\* offset 3 on, without the 3-byte envelope and the 2 CRC bytes; otherwise
\* it fails with the no-valid-data error.
C15_ExtractorExact ==
    Called("get_reply_data") =>
        LET rep == call.data
            fits == Len(rep) > 5 /\ 5 + rep[3] = Len(rep)
        IN  /\ fits <=> result.tag = "Ok"
            /\ fits => /\ Len(result.val) = rep[3]
                        /\ \A i \in 1 .. rep[3] : result.val[i] = rep[3 + i]
                        /\ Len(result.val) = Len(rep) - 5
            /\ ~fits => result = Err("NoData")

C15_Witness ==
    /\ Called("get_reply_data")
    /\ Len(call.data) = 7
    /\ call.data[3] = 2
    /\ result = Ok(<<28, 35>>)

\* C20: unpack_bits with fewer than ceil(count/8) bytes returns an error and
\* does not panic; with count <= 8 * len(bytes) it returns count coils.
C20_UnpackChecked ==
    Called("unpack_bits") =>
        /\ result.tag # "Panic"
        /\ Len(call.data) < CeilDiv8(call.quantity) => result.tag = "Err"
        /\ call.quantity <= 8 * Len(call.data) =>
              (result.tag = "Ok" /\ Len(result.val) = call.quantity)

----------------------------------------------------------------------------
(* The exchange.                                                           *)

TransportOps == <<"write_all", "flush", "read">>

IsPrefix(p, q) == Len(p) <= Len(q) /\ p = SubSeq(q, 1, Len(p))

WriteAllFailed == result.err = "WriteAll"
FlushFailed == result.err = "Flush"
ReadFailed == result.err = "Read"

\* C14: the stream operations of one exchange are a prefix of write_all,
\* flush, read, each done at most once; a failed write_all is followed by
\* neither flush nor read, a failed flush by no read, and a failed write_all,
\* flush or read makes the exchange return an error.
C14_OpsPrefixNoRetry ==
    /\ IsPrefix(ops, TransportOps)
    /\ (call.kind # "None" /\ built.tag = "Ok") => Len(ops) >= 1
    /\ WriteAllFailed => (ops = <<"write_all">> /\ result.tag = "Err")
    /\ FlushFailed => (ops = <<"write_all", "flush">> /\ result.tag = "Err")
    /\ ReadFailed => (ops = TransportOps /\ result.tag = "Err" /\ nread = 0)
    /\ Len(ops) = 1 => WriteAllFailed
    /\ result.tag = "Ok" => Len(ops) >= 2

C14_Witness ==
    /\ call.kind = "ReadHoldingRegisters"
    /\ FlushFailed
    /\ ops = <<"write_all", "flush">>
    /\ result.tag = "Err"

\* the read of the last exchange delivered the exception reply to its
\* request, whole and from the start of the buffer
ExceptionRead ==
    /\ ReadSucceeded
    /\ Len(built.req) >= 2
    /\ nread = 5
    /\ SubSeq(reply, 1, 5) = ExceptionReply(built.req)

ChecksumOrLength == {"Crc", "Len", "NoData", "Odd"}

----------------------------------------------------------------------------
(* The byte count of write_multiple_registers.                             *)

\* C17: a request built for a write of n registers carries the word count n
\* and the byte count 2*n, not wrapped to 8 bits; for every n whose frame
\* exceeds 260 bytes (n >= 126, and n >= 128 where 2*n exceeds a byte) the
\* build returns InvalidFrame: it neither panics nor yields a request.
C17_ByteCountNoWrap ==
    (call.kind = "WriteMultipleRegisters" /\ built.tag # "None") =>
        LET n == Len(call.data)
        IN  /\ built.tag = "Ok" =>
                  /\ SubSeq(built.req, 5, 6) = BigEndian(n)
                  /\ built.req[7] = 2 * n
            /\ n >= FirstTooBig =>
                  (built.tag = "Err" /\ built.err \in InvalidFrame)

----------------------------------------------------------------------------
(* The state of the client.                                                *)

\* a step that changes the flag is set_need_reply: it is taken between
\* exchanges and changes nothing else
FlagChangedBySetterOnly ==
    need_reply' # need_reply =>
        /\ result.tag = "None"
        /\ UNCHANGED <<mock, rx, call, built, ops, reply, nread, result>>

\* between two exchanges nothing of the last one is left in the client
NothingElseCarriedOver ==
    result.tag = "None" =>
        (call = NoCall /\ built = NotBuilt("None", "") /\ ops = <<>>
            /\ reply = <<>> /\ nread = 0)

\* C18: need_reply is TRUE on a new client and only set_need_reply changes
\* it: no call of read_holding_registers, write_single_register,
\* write_multiple_registers or custom, however it ends, modifies it; besides
\* the stream it is the only state an exchange finds from the one before.
C18_FlagFrame ==
    /\ need_reply = TRUE
    /\ [][FlagChangedBySetterOnly]_vars
    /\ []NothingElseCarriedOver

C18_Witness ==
    /\ call.kind = "ReadHoldingRegisters"
    /\ ~call.need
    /\ ~need_reply
    /\ result = Err("Flush")

----------------------------------------------------------------------------
(* The quantities read_holding_registers can read.                         *)

\* C19: read_holding_registers returns Ok only for 1 <= quantity <= 127;
\* for quantity 0 and quantity >= 128 the request is built and written and
\* a reply is read like for any other quantity, and whatever the reply
\* holds the call fails.
C19_ReadableQuantities ==
    call.kind = "ReadHoldingRegisters" =>
        /\ result.tag = "Ok" => call.quantity \in 1 .. MaxReadable
        /\ built.tag = "Ok" /\ Len(built.reply) = 5 + 2 * call.quantity
        /\ Len(ops) >= 1
        /\ ReadSucceeded => Len(reply) = 5 + 2 * call.quantity

C19_Witness ==
    /\ call.kind = "ReadHoldingRegisters"
    /\ call.quantity = MaxReadable + 1
    /\ ReadSucceeded
    /\ nread = 5 + 2 * call.quantity
    /\ reply[1] = call.id /\ reply[2] = 3 /\ reply[3] = 0
    /\ CrcCorrect(reply)
    /\ result = Err("NoData")

====
